---- MODULE Spec2Model ----
(***************************************************************************)
(* Model of src/zls.ts: the module of the Zig extension that installs,     *)
(* updates, starts and stops the Zig Language Server (ZLS).                *)
(*                                                                         *)
(* Every action is one run-to-completion turn of the JavaScript event loop *)
(* of one handler: everything between two awaits that really wait (a       *)
(* prompt, an HTTP request, client.start(), a settings write).  Two        *)
(* handlers run side by side: the body of activate and one command (or one *)
(* direct call of the exported install).                                   *)
(*                                                                         *)
(* The editor keeps zig.zls.path per target: update("path", v, true)       *)
(* writes the global value, update("path", undefined) removes the          *)
(* workspace value, and get("path") reads the workspace value if there is  *)
(* one, else the global one.  A settings write takes effect when update is *)
(* called; a workspace is open, so the write does not fail.  Each handler  *)
(* keeps a log of what its current invocation did and of what the          *)
(* environment answered; the log is emptied when the handler is invoked    *)
(* again.                                                                  *)
(***************************************************************************)
EXTENDS Integers, Sequences, FiniteSets

\* ------------------------------------------------------------------ bounds

\* Client objects that may exist at once (referenced, starting or leaked).
MaxClients == 2
\* Items of one workspace/configuration request.
MaxItems == 2

\* --------------------------------------------------------------- constants

\* fs.chmodSync(zlsBinPath, 0o755)
Mode755 == 493
\* fs.writeFileSync creates the file with Node's default mode 0o666
Mode666 == 438
\* err.response.status == 403
Status403 == 403

\* ---------------------------------------------------------------- versions

\* The text of a version, "major.minor.patch[-dev.pre][+build]", as the
\* tuple of its numbers; pre = 0 and build = 0 stand for an absent
\* prerelease tag and absent build metadata.
VStr(ma, mi, pa, pre, build) == <<ma, mi, pa, pre, build>>

\* Text that is no semantic version (semver.parse gives null for it).
Garbage == <<>>

\* The text without its build metadata.
WithoutBuild(s) == [s EXCEPT ![5] = 0]

\* A SemVer object has the fields major, minor, patch, pre, build, raw and
\* version; raw is the text it was parsed from and version the formatted
\* text without build metadata, both fixed by the constructor.  This is
\* null, which has none of them.
NullVersion == [null |-> TRUE]

\* semver.parse(text): null for text that is no version.
SemverParse(s) ==
    IF s = Garbage THEN NullVersion
    ELSE [major |-> s[1], minor |-> s[2], patch |-> s[3],
          pre |-> s[4], build |-> s[5],
          raw |-> s, version |-> WithoutBuild(s)]

\* `${version}`: SemVer.toString() returns the version field.
VersionText(v) == v.version

\* SemVer.compare: main triple first, then the prerelease tag (a version
\* with a prerelease tag is lower than the same triple without one); build
\* metadata is ignored.
SemverCompare(a, b) ==
    IF a.major # b.major THEN (IF a.major < b.major THEN -1 ELSE 1)
    ELSE IF a.minor # b.minor THEN (IF a.minor < b.minor THEN -1 ELSE 1)
    ELSE IF a.patch # b.patch THEN (IF a.patch < b.patch THEN -1 ELSE 1)
    ELSE IF a.pre # 0 /\ b.pre = 0 THEN -1
    ELSE IF a.pre = 0 /\ b.pre # 0 THEN 1
    ELSE IF a.pre = b.pre THEN 0
    ELSE IF a.pre < b.pre THEN -1 ELSE 1

SemverLt(a, b) == SemverCompare(a, b) < 0

SemverEq(a, b) == SemverCompare(a, b) = 0

\* "0.9.0": Zig 0.9.0 was the first version to have a tagged zls release.
FirstTagged == SemverParse(VStr(0, 9, 0, 0, 0))

\* ------------------------------------------------------------------- state

\* The two handlers that may be in flight at once.
Procs == {"act", "cmd"}

VARIABLES
    zigPath,     \* setting zig.path: "null" or "zig"
    zlsPathW,    \* setting zig.zls.path, workspace value: "null" when unset
    zlsPathG,    \* setting zig.zls.path, global (user) value
    settings,    \* the settings the module only reads
    fs,          \* the directory <globalStorage>/zls_install
    client,      \* module variable client: 0 is null, else a client id
    live,        \* clients whose start() was called and that were not stopped
    op,          \* per handler: the operation it runs
    pc,          \* per handler: the await it is suspended at
    loc,         \* per handler: its local variables
    log,         \* per handler: what the current invocation did, in order
    result,      \* per handler: how the invocation ended
    mwParams,    \* items of the last workspace/configuration request
    mwResult     \* what the middleware answered to it

vars == <<zigPath, zlsPathW, zlsPathG, settings, fs, client, live,
          op, pc, loc, log, result, mwParams, mwResult>>

\* workspace.getConfiguration("zig.zls").get("path"): the workspace value
\* overrides the global one; null when neither is set.
ZlsPath == IF zlsPathW # "null" THEN zlsPathW ELSE zlsPathG

\* The install directory: absent, empty, or holding the zls binary.
NoDir == [kind |-> "nodir", ver |-> Garbage, mode |-> 0]
EmptyDir == [kind |-> "empty", ver |-> Garbage, mode |-> 0]
BinFile(ver, mode) == [kind |-> "file", ver |-> ver, mode |-> mode]

\* An entry of a handler's log: an operation and the version text in it.
Ev(e) == [e |-> e, v |-> Garbage]
EvV(e, v) == [e |-> e, v |-> v]

\* A handler's local variables.
NoLocals ==
    [ask |-> FALSE, zigVersion |-> NullVersion, zlsVersion |-> NullVersion,
     version |-> NullVersion, myClient |-> 0, cfu |-> FALSE,
     command |-> "null"]

\* ------------------------------------------------------------ environment

\* What `zig version` may print.
ZigVersionOutputs ==
    {VStr(0, 8, 1, 0, 0), VStr(0, 9, 0, 1, 1), VStr(0, 10, 0, 0, 0),
     VStr(0, 10, 1, 0, 0), VStr(0, 11, 0, 1, 1), Garbage}

\* What index.json may name as latest.
LatestVersions == {VStr(0, 11, 0, 1, 1), VStr(0, 11, 0, 2, 2)}

\* What `zls --version` of a binary installed before activation may print.
InstalledVersions == {VStr(0, 10, 0, 0, 0), VStr(0, 11, 0, 1, 1), Garbage}

\* Outcomes of axios.get of index.json
IndexOutcomes ==
    {[kind |-> "neterr", latest |-> Garbage],
     [kind |-> "invalid", latest |-> Garbage]}
    \cup {[kind |-> "ok", latest |-> l] : l \in LatestVersions}

\* Outcomes of axios.get of the binary, by HTTP status: 200 carries the
\* data, 403 and 500 are error responses, 0 is an error without response.
DownloadOutcomes == {0, 200, 403, 500}

\* Outcomes of window.showInformationMessage(..., "Install", "Ignore")
PromptOutcomes == {"Install", "Ignore", "dismissed"}

Init ==
    /\ zigPath \in {"null", "zig"}
    /\ zlsPathW \in {"null", "external"}
    /\ \/ zlsPathG \in {"null", "external"} /\ fs = NoDir
       \/ zlsPathG = "managed"
          /\ fs \in {BinFile(v, Mode755) : v \in InstalledVersions}
    /\ settings \in [astCheckProvider : {"zls", "off"},
                     formattingProvider : {"zls", "off"},
                     checkForUpdate : BOOLEAN]
    /\ client = 0
    /\ live = {}
    /\ op = [p \in Procs |-> "none"]
    /\ pc = [p \in Procs |-> "idle"]
    /\ loc = [p \in Procs |-> NoLocals]
    /\ log = [p \in Procs |-> <<>>]
    /\ result = [p \in Procs |-> "none"]
    /\ mwParams = <<>>
    /\ mwResult = <<>>

\* ------------------------------------------- the code, turn by turn
\* A turn is computed on a record of the values it may change: the
\* handler's own op, pc, loc, log and result, and the shared fs, zlsPathW,
\* zlsPathG, client and live.

Cur(p) ==
    [op |-> op[p], pc |-> pc[p], loc |-> loc[p], log |-> log[p],
     result |-> result[p], fs |-> fs, zlsPathW |-> zlsPathW,
     zlsPathG |-> zlsPathG, client |-> client, live |-> live]

\* A client id no client object uses: not live and not being started.
FreeIds ==
    {i \in 1..MaxClients :
        /\ i \notin live
        /\ \A q \in Procs : ~(pc[q] = "starting" /\ loc[q].myClient = i)}

\* The id of the next `new LanguageClient`, 0 when the bound is reached.
NewId == IF FreeIds = {} THEN 0 ELSE CHOOSE i \in FreeIds : \A j \in FreeIds : i <= j

Apply(p, s) ==
    /\ mwParams = <<>>
    /\ ~(s.pc = "starting" /\ s.loc.myClient = 0)
    /\ op' = [op EXCEPT ![p] = s.op]
    /\ pc' = [pc EXCEPT ![p] = s.pc]
    /\ loc' = [loc EXCEPT ![p] = s.loc]
    /\ log' = [log EXCEPT ![p] = s.log]
    /\ result' = [result EXCEPT ![p] = s.result]
    /\ fs' = s.fs
    /\ zlsPathW' = s.zlsPathW
    /\ zlsPathG' = s.zlsPathG
    /\ client' = s.client
    /\ live' = s.live
    /\ UNCHANGED <<zigPath, settings, mwParams, mwResult>>

Emit(s, e) == [s EXCEPT !.log = Append(@, e)]

\* The handler's promise resolves / rejects.
Resolve(s) == [s EXCEPT !.pc = "done", !.result = "ok"]
Reject(s) == [s EXCEPT !.pc = "done", !.result = "threw"]

\* The operations that run install and whose promise is install's.
InstallOps == {"zig.zls.install", "install"}

\* Mutant: stopping the client also forgets the configured path.
stopClientClearsPath(s) ==
    [s EXCEPT !.live = IF s.client # 0 THEN @ \ {s.client} ELSE @,
              !.client = 0, !.zlsPathW = "null", !.zlsPathG = "null"]

\* zls.ts:85-88
stopClient(s) ==
    [s EXCEPT !.live = IF s.client # 0 THEN @ \ {s.client} ELSE @,
              !.client = 0]

\* zls.ts:20-75, up to the await of client.start()
startClient(s, id) ==
    [s EXCEPT !.client = id, !.live = @ \cup {id}, !.loc.myClient = id,
              !.loc.command =
                  IF s.zlsPathW # "null" THEN s.zlsPathW ELSE s.zlsPathG,
              !.pc = "starting"]

\* zls.ts:75-82: client.start() settled; fmt is zig.formattingProvider
startSettled(s0, started, fmt) ==
    LET s == [s0 EXCEPT !.loc.command = "null"]
        s1 == IF started THEN s
              ELSE [Emit(s, Ev("showWarning.failedToRun"))
                       EXCEPT !.client = 0, !.live = @ \ {s.loc.myClient}]
    IN  IF fmt # "zls"
        THEN IF s1.client = 0 THEN Reject(s1)
             ELSE Resolve(Emit(s1, Ev("dispose.formatting")))
        ELSE Resolve(s1)

\* zls.ts:280-281 and 289-291: checkUpdate returned, startClient follows
afterCheckUpdate(s, id) == startClient(s, id)

\* zls.ts:148-149, 188-191: installVersion returned normally
afterInstallVersion(s, id) ==
    IF s.op \in InstallOps THEN Resolve(s) ELSE afterCheckUpdate(s, id)

\* zls.ts:194-213: installVersion up to the await of the download
installVersion(s, version) ==
    LET s1 == IF s.fs.kind # "nodir" THEN Emit(s, Ev("rmSync")) ELSE s
        s2 == Emit(s1, Ev("mkdirp"))
        s3 == Emit(s2, EvV("get.binary", version.raw))
    IN  [s3 EXCEPT !.fs = EmptyDir, !.loc.version = version,
                   !.pc = "download"]

\* Mutant: a failed download is tried again.
installVersionThrewRetries(s) == installVersion(s, s.loc.version)

\* zls.ts:148, 187-191: installVersion threw
installVersionThrew(s) ==
    IF s.op \in InstallOps
    THEN Resolve(Emit(s, EvV("showError.unableToInstall",
                             VersionText(s.loc.zlsVersion))))
    ELSE Reject(s)

\* The log entry of a settled download.
HttpEvent(st) ==
    IF st = 200 THEN "http.200"
    ELSE IF st = Status403 THEN "http.403"
    ELSE IF st = 0 THEN "http.noResponse"
    ELSE "http.500"

\* zls.ts:222: fs.writeFileSync(zlsBinPath, exe, "binary")
writeFileSync(s) ==
    [Emit(s, Ev("writeFile"))
        EXCEPT !.fs = BinFile(s.loc.version.raw, Mode666)]

\* zls.ts:223: fs.chmodSync(zlsBinPath, 0o755)
chmodSync(s) == [Emit(s, Ev("chmod")) EXCEPT !.fs.mode = Mode755]

\* zls.ts:225-226: config.update("path", zlsBinPath, true)
updatePath(s) ==
    [Emit(s, Ev("update.path.global"))
        EXCEPT !.zlsPathG = "managed", !.pc = "updated"]

\* Mutant: the binary is recorded without having been made executable.
writeBinaryNoChmod(s) == updatePath(writeFileSync(s))

\* zls.ts:222-226: the binary is written, made executable and recorded
writeBinary(s) == updatePath(chmodSync(writeFileSync(s)))

\* Mutant: HTTP 403 is not recognised and the error is thrown on.
missingBinaryThrows(s, id) == installVersionThrew(s)

\* zls.ts:215-219: no prebuilt binary for the host
missingBinary(s, id) ==
    afterInstallVersion(
        Emit(s, EvV("showError.noPrebuilt", VersionText(s.loc.version))), id)

\* zls.ts:209-226: the download settled with HTTP status st
downloadSettled(s0, st, id) ==
    LET s == Emit(s0, Ev(HttpEvent(st)))
    IN  IF st = 200 THEN writeBinary(s)
        ELSE IF st = Status403 THEN missingBinary(s, id)
        ELSE installVersionThrew(s)

\* zls.ts:177-188: install from the choice of the ZLS version on
selectVersion(s, zigVersion) ==
    IF zigVersion.build # 0
    THEN [Emit(s, Ev("get.index")) EXCEPT !.loc.zigVersion = zigVersion,
                                          !.pc = "index"]
    ELSE LET zlsVersion == [zigVersion EXCEPT !.patch = 0]
         IN  installVersion([s EXCEPT !.loc.zigVersion = zlsVersion,
                                      !.loc.zlsVersion = zlsVersion],
                            zlsVersion)

\* zls.ts:163, 173: zlsConfiguration.update("path", undefined)
clearPath(s) ==
    [Emit(s, Ev("update.path.workspace")) EXCEPT !.zlsPathW = "null"]

\* zls.ts:152-176: install up to its first await; out is what `zig version`
\* printed
install(s, ask, out) ==
    LET zigVersion == SemverParse(out)
        s1 == [Emit(s, EvV("exec.zig", out)) EXCEPT !.loc.ask = ask]
        path == IF s.zlsPathW # "null" THEN s.zlsPathW ELSE s.zlsPathG
    IN  IF zigVersion = NullVersion THEN Reject(s1)
        ELSE IF SemverLt(zigVersion, FirstTagged)
        THEN Resolve(clearPath(
                 IF path # "null"
                 THEN Emit(s1, EvV("showError.notAvailable",
                                   VersionText(zigVersion)))
                 ELSE s1))
        ELSE IF ask
        THEN [Emit(s1, EvV("prompt.install", VersionText(zigVersion)))
                 EXCEPT !.loc.zigVersion = zigVersion, !.pc = "prompt"]
        ELSE selectVersion(s1, zigVersion)

\* The log entry of an answered prompt.
AnswerEvent(answer) ==
    IF answer = "Install" THEN "answer.Install"
    ELSE IF answer = "Ignore" THEN "answer.Ignore"
    ELSE "answer.dismissed"

\* The log entry of a settled request for index.json.
IndexEvent(idx) ==
    IF idx.kind = "neterr" THEN Ev("index.noResponse")
    ELSE IF idx.kind = "invalid" THEN Ev("index.invalid")
    ELSE EvV("index.latest", idx.latest)

\* zls.ts:172-176: the prompt of install was answered
promptAnswered(s0, answer) ==
    LET s == Emit(s0, Ev(AnswerEvent(answer))) IN
    IF answer = "Ignore" THEN Resolve(clearPath(s))
    ELSE selectVersion(s, s.loc.zigVersion)

\* zls.ts:114-121 and 180: getVersionIndex settled in install
indexSettled(s0, idx) ==
    LET s == Emit(s0, IndexEvent(idx)) IN
    IF idx.kind = "neterr" THEN Reject(s)
    ELSE IF idx.kind = "invalid"
    THEN Reject(Emit(s, Ev("showError.invalidIndex")))
    ELSE LET zlsVersion == SemverParse(idx.latest)
         IN  installVersion([s EXCEPT !.loc.zlsVersion = zlsVersion],
                            zlsVersion)

\* zls.ts:124-143: checkUpdate up to the await of getVersionIndex
checkUpdate(s0, id) ==
    LET s == Emit(s0, Ev("checkUpdate"))
        path == IF s.zlsPathW # "null" THEN s.zlsPathW ELSE s.zlsPathG
        s1 == Emit(s, Ev("exec.zls"))
        version == SemverParse(s.fs.ver)
    IN  IF path # "managed" THEN afterCheckUpdate(s, id)
        ELSE IF s.fs.kind # "file" THEN Reject(s1)
        ELSE IF version = NullVersion THEN afterCheckUpdate(s1, id)
        ELSE IF version.build = 0
        THEN afterCheckUpdate(Emit(s1, Ev("showWarning.tagged")), id)
        ELSE [Emit(s1, Ev("get.index")) EXCEPT !.loc.version = version,
                                               !.pc = "cuIndex"]

\* zls.ts:114-121 and 143-146: getVersionIndex settled in checkUpdate
cuIndexSettled(s0, idx, id) ==
    LET s == Emit(s0, IndexEvent(idx)) IN
    IF idx.kind = "neterr" THEN Reject(s)
    ELSE IF idx.kind = "invalid"
    THEN Reject(Emit(s, Ev("showError.invalidIndex")))
    ELSE IF SemverEq(s.loc.version, SemverParse(idx.latest))
    THEN afterCheckUpdate(s, id)
    ELSE [Emit(s, Ev("prompt.update")) EXCEPT !.pc = "cuPrompt"]

\* Mutant: as in install, only "Ignore" declines the update.
cuPromptAnsweredUnlessIgnore(s0, answer, id) ==
    LET s == Emit(s0, Ev(AnswerEvent(answer))) IN
    IF answer # "Ignore" THEN installVersion(s, s.loc.version)
    ELSE afterCheckUpdate(s, id)

\* zls.ts:146-149: the prompt of checkUpdate was answered
cuPromptAnswered(s0, answer, id) ==
    LET s == Emit(s0, Ev(AnswerEvent(answer))) IN
    IF answer = "Install" THEN installVersion(s, s.loc.version)
    ELSE afterCheckUpdate(s, id)

\* zls.ts:237-241
checkInstalled(s) == (IF s.zlsPathW # "null" THEN s.zlsPathW ELSE s.zlsPathG) # "null"

\* Mutant: the client is stopped before the setting is looked at.
notInstalledStops(s) ==
    Resolve(Emit(stopClient(s), Ev("showError.zlsPathNotSet")))

\* zls.ts:239 and 258, 264, 271, 277: the command returns after the message
notInstalled(s) == Resolve(Emit(s, Ev("showError.zlsPathNotSet")))

\* ------------------------------------------- the configuration middleware

\* The strings of the middleware and of the settings it reaches.
Strings ==
    {"zls.zig_exe_path", "zls.enable_ast_check_diagnostics",
     "zls.warn_style", "zls.zig_lib_path", "zig.path", "zig.zls.",
     "zig.zls.warnStyle", "zig.zls.zigLibPath"}

\* The characters of a string.
Chars(str) ==
    CASE str = "zls.zig_exe_path" ->
            <<"z", "l", "s", ".", "z", "i", "g", "_", "e", "x", "e", "_",
            "p", "a", "t", "h">>
      [] str = "zls.enable_ast_check_diagnostics" ->
            <<"z", "l", "s", ".", "e", "n", "a", "b", "l", "e", "_", "a",
            "s", "t", "_", "c", "h", "e", "c", "k", "_", "d", "i", "a",
            "g", "n", "o", "s", "t", "i", "c", "s">>
      [] str = "zls.warn_style" ->
            <<"z", "l", "s", ".", "w", "a", "r", "n", "_", "s", "t", "y",
            "l", "e">>
      [] str = "zls.zig_lib_path" ->
            <<"z", "l", "s", ".", "z", "i", "g", "_", "l", "i", "b", "_",
            "p", "a", "t", "h">>
      [] str = "zig.path" ->
            <<"z", "i", "g", ".", "p", "a", "t", "h">>
      [] str = "zig.zls." ->
            <<"z", "i", "g", ".", "z", "l", "s", ".">>
      [] str = "zig.zls.warnStyle" ->
            <<"z", "i", "g", ".", "z", "l", "s", ".", "w", "a", "r", "n",
            "S", "t", "y", "l", "e">>
      [] str = "zig.zls.zigLibPath" ->
            <<"z", "i", "g", ".", "z", "l", "s", ".", "z", "i", "g", "L",
            "i", "b", "P", "a", "t", "h">>

\* The string that has these characters, "?" for none of Strings.
Text(chars) ==
    IF \E str \in Strings : Chars(str) = chars
    THEN CHOOSE str \in Strings : Chars(str) = chars
    ELSE "?"

\* The sections the server asks for.
Sections ==
    {"zls.zig_exe_path", "zls.enable_ast_check_diagnostics",
     "zls.warn_style", "zls.zig_lib_path"}

LowerCase ==
    <<"a", "b", "c", "d", "e", "f", "g", "h", "i", "j", "k", "l", "m",
    "n", "o", "p", "q", "r", "s", "t", "u", "v", "w", "x", "y", "z">>
UpperCase ==
    <<"A", "B", "C", "D", "E", "F", "G", "H", "I", "J", "K", "L", "M",
    "N", "O", "P", "Q", "R", "S", "T", "U", "V", "W", "X", "Y", "Z">>

Separators == {"_", ".", "-", " "}

ToUpper(c) ==
    IF \E i \in 1..Len(LowerCase) : LowerCase[i] = c
    THEN UpperCase[CHOOSE i \in 1..Len(LowerCase) : LowerCase[i] = c]
    ELSE c

\* camelCase of a lower-case string: separators are dropped and the
\* character after a run of them is upper-cased, except at the start.
RECURSIVE CamelFrom(_, _, _)
CamelFrom(str, i, up) ==
    IF i > Len(str) THEN <<>>
    ELSE IF str[i] \in Separators THEN CamelFrom(str, i + 1, TRUE)
    ELSE <<IF up THEN ToUpper(str[i]) ELSE str[i]>>
         \o CamelFrom(str, i + 1, FALSE)

RECURSIVE DropSeparators(_)
DropSeparators(str) ==
    IF str # <<>> /\ Head(str) \in Separators THEN DropSeparators(Tail(str))
    ELSE str

camelCase(str) == CamelFrom(DropSeparators(str), 1, FALSE)

\* param.section.slice(4)
Slice4(str) == SubSeq(str, 5, Len(str))

\* A configuration value: the editor's value of a setting, a boolean, or
\* the path of an executable found on PATH.
SettingValue(section) == [k |-> "setting", of |-> section, b |-> FALSE]
BoolValue(b) == [k |-> "bool", of |-> "", b |-> b]

\* getZigPath() of zigUtil: the configured zig.path, or the zig found on
\* PATH when the setting is null.
getZigPath ==
    IF zigPath # "null" THEN SettingValue("zig.path")
    ELSE [k |-> "which", of |-> "zig", b |-> FALSE]

\* zls.ts:41-50: the section each item is rewritten to
RewriteSection(section) ==
    IF section = "zls.zig_exe_path" THEN "zig.path"
    ELSE IF section = "zls.enable_ast_check_diagnostics" THEN section
    ELSE Text(Chars("zig.zls.") \o camelCase(Slice4(Chars(section))))

\* zls.ts:38-50: the index the loop leaves in indexOfZigPath /
\* indexOfAstCheck, 0 for null: the last item with that section
LastIndexOf(items, section) ==
    LET hits == {i \in 1..Len(items) : items[i] = section}
    IN  IF hits = {} THEN 0 ELSE CHOOSE i \in hits : \A j \in hits : j <= i

\* zls.ts:37-62
configuration(items) ==
    LET params == [i \in 1..Len(items) |-> RewriteSection(items[i])]
        indexOfAstCheck ==
            LastIndexOf(items, "zls.enable_ast_check_diagnostics")
        indexOfZigPath == LastIndexOf(items, "zls.zig_exe_path")
        next == [i \in 1..Len(items) |-> SettingValue(params[i])]
        r1 == IF indexOfAstCheck # 0
              THEN [next EXCEPT ![indexOfAstCheck] =
                       BoolValue(settings.astCheckProvider = "zls")]
              ELSE next
    IN  IF indexOfZigPath # 0
        THEN [r1 EXCEPT ![indexOfZigPath] = getZigPath]
        ELSE r1

RECURSIVE SeqsUpTo(_, _)
SeqsUpTo(S, n) ==
    IF n = 0 THEN {<<>>}
    ELSE LET shorter == SeqsUpTo(S, n - 1)
         IN  shorter \cup {Append(q, x) : q \in shorter, x \in S}

\* ----------------------------------------------------------------- actions

\* activate has registered the commands (zls.ts:246-282).
Registered == pc["act"] # "idle"

\* No handler is between two of its turns.
Quiet == \A p \in Procs : pc[p] \in {"idle", "exited"}

\* The server of the current client sends workspace/configuration.
ConfigurationRequest ==
    /\ Quiet
    /\ client # 0
    /\ mwParams = <<>>
    /\ \E items \in SeqsUpTo(Sections, MaxItems) \ {<<>>} :
          /\ mwParams' = items
          /\ mwResult' = configuration(items)
    /\ UNCHANGED <<zigPath, zlsPathW, zlsPathG, settings, fs, client, live,
                   op, pc, loc, log, result>>

\* The answer has gone to the server.
ConfigurationAnswered ==
    /\ mwParams # <<>>
    /\ mwParams' = <<>>
    /\ mwResult' = <<>>
    /\ UNCHANGED <<zigPath, zlsPathW, zlsPathG, settings, fs, client, live,
                   op, pc, loc, log, result>>

Begin(p, name) == [Cur(p) EXCEPT !.op = name, !.log = <<>>, !.loc = NoLocals]

\* zls.ts:246-255
CmdInstall(p) ==
    /\ p = "cmd" /\ pc[p] = "idle" /\ Registered
    /\ LET s == Begin(p, "zig.zls.install")
       IN  IF zigPath = "null"
           THEN Apply(p, Resolve(Emit(s, Ev("showError.zigPathNotSet"))))
           ELSE \E out \in ZigVersionOutputs :
                   Apply(p, install(stopClient(s), TRUE, out))

\* The exported install(context, ask), called from outside this module.
InstallCall(p) ==
    /\ p = "cmd" /\ pc[p] = "idle"
    /\ zigPath # "null"
    /\ \E ask \in BOOLEAN, out \in ZigVersionOutputs :
          Apply(p, install(Begin(p, "install"), ask, out))

\* zls.ts:257-261
CmdStop(p) ==
    /\ p = "cmd" /\ pc[p] = "idle" /\ Registered
    /\ LET s == Begin(p, "zig.zls.stop")
       IN  IF ~checkInstalled(s) THEN Apply(p, notInstalled(s))
           ELSE Apply(p, Resolve(stopClient(s)))

\* zls.ts:263-268
CmdStartRestart(p) ==
    /\ p = "cmd" /\ pc[p] = "idle" /\ Registered
    /\ LET s == Begin(p, "zig.zls.startRestart")
       IN  IF ~checkInstalled(s) THEN Apply(p, notInstalled(s))
           ELSE Apply(p, startClient(stopClient(s), NewId))

\* zls.ts:270-274 and 230-235
CmdOpenConfig(p) ==
    /\ p = "cmd" /\ pc[p] = "idle" /\ Registered
    /\ LET s == Begin(p, "zig.zls.openconfig")
       IN  IF ~checkInstalled(s) THEN Apply(p, notInstalled(s))
           ELSE IF ZlsPath = "managed" /\ fs.kind # "file"
           THEN Apply(p, Reject(Emit(s, Ev("exec.zls"))))
           ELSE Apply(p, Resolve(Emit(Emit(s, Ev("exec.zls")),
                                      Ev("showTextDocument"))))

\* zls.ts:276-282
CmdUpdate(p) ==
    /\ p = "cmd" /\ pc[p] = "idle" /\ Registered
    /\ LET s == Begin(p, "zig.zls.update")
       IN  IF ~checkInstalled(s) THEN Apply(p, notInstalled(s))
           ELSE Apply(p, checkUpdate(stopClient(s), NewId))

\* zls.ts:288: what shouldCheckUpdate(context, "zlsUpdate") of zigUtil
\* returned, as a log entry.
ShouldEvent(should) ==
    IF should THEN "shouldCheckUpdate.true" ELSE "shouldCheckUpdate.false"

\* Mutant: the answer of shouldCheckUpdate is not looked at.
ActivateIgnoresShould(p) ==
    /\ p = "act" /\ pc[p] = "idle"
    /\ LET s == Begin(p, "activate")
       IN  IF zigPath = "null" \/ ZlsPath = "null" THEN Apply(p, Resolve(s))
           ELSE \E should \in BOOLEAN :
                   LET s0 == IF settings.checkForUpdate
                             THEN Emit(s, Ev(ShouldEvent(should))) ELSE s
                       s1 == [s0 EXCEPT !.loc.cfu = settings.checkForUpdate]
                   IN  IF s1.loc.cfu THEN Apply(p, checkUpdate(s1, NewId))
                       ELSE Apply(p, startClient(s1, NewId))

\* zls.ts:284-292: the body of activate after the registrations.
\* shouldCheckUpdate is called only when zig.zls.checkForUpdate is true (&&).
Activate(p) ==
    /\ p = "act" /\ pc[p] = "idle"
    /\ LET s == Begin(p, "activate")
       IN  IF zigPath = "null" \/ ZlsPath = "null" THEN Apply(p, Resolve(s))
           ELSE \E should \in BOOLEAN :
                   LET s0 == IF settings.checkForUpdate
                             THEN Emit(s, Ev(ShouldEvent(should))) ELSE s
                       s1 == [s0 EXCEPT !.loc.cfu =
                                 settings.checkForUpdate /\ should]
                   IN  IF s1.loc.cfu THEN Apply(p, checkUpdate(s1, NewId))
                       ELSE Apply(p, startClient(s1, NewId))

PromptAnswered(p) ==
    /\ pc[p] = "prompt"
    /\ \E answer \in PromptOutcomes : Apply(p, promptAnswered(Cur(p), answer))

IndexSettled(p) ==
    /\ pc[p] = "index"
    /\ \E idx \in IndexOutcomes : Apply(p, indexSettled(Cur(p), idx))

DownloadSettled(p) ==
    /\ pc[p] = "download"
    /\ \E st \in DownloadOutcomes : Apply(p, downloadSettled(Cur(p), st, NewId))

\* zls.ts:226-228: config.update settled, installVersion returns
PathUpdated(p) ==
    /\ pc[p] = "updated"
    /\ Apply(p, afterInstallVersion(Cur(p), NewId))

CuIndexSettled(p) ==
    /\ pc[p] = "cuIndex"
    /\ \E idx \in IndexOutcomes : Apply(p, cuIndexSettled(Cur(p), idx, NewId))

CuPromptAnswered(p) ==
    /\ pc[p] = "cuPrompt"
    /\ \E answer \in PromptOutcomes :
          Apply(p, cuPromptAnswered(Cur(p), answer, NewId))

StartSettled(p) ==
    /\ pc[p] = "starting"
    /\ \E started \in BOOLEAN :
          Apply(p, startSettled(Cur(p), started, settings.formattingProvider))

\* The handler's promise has settled; the command can be invoked again.
Return(p) ==
    /\ pc[p] = "done"
    /\ Apply(p, [Cur(p) EXCEPT !.op = "none", !.loc = NoLocals, !.log = <<>>,
                               !.result = "none",
                               !.pc = IF p = "act" THEN "exited" ELSE "idle"])

Next ==
    \/ ConfigurationRequest
    \/ ConfigurationAnswered
    \/ \E p \in Procs :
          \/ CmdInstall(p)
          \/ InstallCall(p)
          \/ CmdStop(p)
          \/ CmdStartRestart(p)
          \/ CmdOpenConfig(p)
          \/ CmdUpdate(p)
          \/ Activate(p)
          \/ PromptAnswered(p)
          \/ IndexSettled(p)
          \/ DownloadSettled(p)
          \/ PathUpdated(p)
          \/ CuIndexSettled(p)
          \/ CuPromptAnswered(p)
          \/ StartSettled(p)
          \/ Return(p)

Spec == Init /\ [][Next]_vars

\* ------------------------------------------------------------ the claims

Has(lg, e) == \E i \in 1..Len(lg) : lg[i].e = e

Count(lg, e) == Cardinality({i \in 1..Len(lg) : lg[i].e = e})

\* The entries a step of handler p adds to its log.
NewEntries(p) ==
    IF pc[p] = "idle" THEN log'[p]
    ELSE SubSeq(log'[p], Len(log[p]) + 1, Len(log'[p]))

ErrorNotifications ==
    {"showError.zigPathNotSet", "showError.zlsPathNotSet",
     "showError.notAvailable", "showError.invalidIndex",
     "showError.noPrebuilt", "showError.unableToInstall"}

\* The operations that can reach checkUpdate.
UpdateOps == {"zig.zls.update", "activate"}

\* C1, the order within a log: a recorded path is preceded, in this order,
\* by the download request, the write of the file and the chmod.
C1_Ordered(lg) ==
    \A i \in 1..Len(lg) :
        lg[i].e = "update.path.global" =>
            \E d, w, c \in 1..Len(lg) :
                /\ d < w /\ w < c /\ c < i
                /\ lg[d].e = "get.binary"
                /\ lg[w].e = "writeFile"
                /\ lg[c].e = "chmod"

\* C1: installVersion writes zig.zls.path only after the downloaded binary
\* was written into the install directory and made executable (0755), in the
\* order download, write file, chmod, record path; the value written is the
\* path of that binary, and nothing else sets the global zig.zls.path.
C1_PathRecordedLast ==
    /\ [](\A p \in Procs : C1_Ordered(log[p]))
    /\ [][\A p \in Procs :
            Has(NewEntries(p), "update.path.global") =>
                /\ pc[p] = "download"
                /\ fs'.kind = "file"
                /\ fs'.mode = Mode755
                /\ fs'.ver = loc[p].version.raw
                /\ zlsPathG' = "managed"]_vars
    /\ [][zlsPathG' # zlsPathG =>
            \E p \in Procs : Has(NewEntries(p), "update.path.global")]_vars

\* C1 witness: an installVersion has just recorded the path of the binary
\* it downloaded, wrote and made executable.
C1_Witness ==
    \E p \in Procs :
        /\ pc[p] = "updated"
        /\ Has(log[p], "update.path.global")
        /\ fs = BinFile(loc[p].version.raw, Mode755)
        /\ zlsPathG = "managed"

\* C2: a network error while fetching the version index or downloading the
\* binary, in install or checkUpdate, is followed by an error notification
\* before the operation ends.
C2_NetworkErrorReported ==
    \A p \in Procs :
        pc[p] = "done" =>
            \A i \in 1..Len(log[p]) :
                log[p][i].e \in {"index.noResponse", "http.noResponse"} =>
                    \E j \in (i + 1)..Len(log[p]) :
                        log[p][j].e \in ErrorNotifications

\* C3: when the download is answered with HTTP 403, installVersion shows
\* the error notification, writes neither zig.zls.path nor a binary file,
\* and completes without throwing.
C3_MissingBinary ==
    [][\A p \in Procs :
         (pc[p] = "download" /\ Has(NewEntries(p), "http.403")) =>
            /\ Len(NewEntries(p)) = 2
            /\ NewEntries(p)[1].e = "http.403"
            /\ NewEntries(p)[2].e = "showError.noPrebuilt"
            /\ zlsPathG' = zlsPathG
            /\ zlsPathW' = zlsPathW
            /\ fs' = fs
            /\ result'[p] # "threw"
            /\ pc'[p] \in {"done", "starting"}]_vars

\* C3 witness: an install whose download was answered with 403 has ended
\* normally after the notification.
C3_Witness ==
    \E p \in Procs :
        /\ pc[p] = "done"
        /\ result[p] = "ok"
        /\ Has(log[p], "http.403")
        /\ Has(log[p], "showError.noPrebuilt")

\* C4: install with a Zig version below 0.9.0 shows an error notification,
\* clears zig.zls.path and issues no index request and no download,
\* whatever zig.zls.path was and whatever the ask flag.
C4_OldZigReportedAndCleared ==
    \A p \in Procs :
        (/\ pc[p] = "done"
         /\ op[p] \in InstallOps
         /\ Len(log[p]) > 0
         /\ log[p][1].e = "exec.zig"
         /\ log[p][1].v # Garbage
         /\ SemverLt(SemverParse(log[p][1].v), FirstTagged)) =>
            /\ Has(log[p], "showError.notAvailable")
            /\ ZlsPath = "null"
            /\ ~Has(log[p], "get.index")
            /\ ~Has(log[p], "get.binary")

\* C5, the section the claim names for an ordinary item: "zig.zls."
\* followed by the camel-cased name without its "zls." prefix.
C5_Section(section) ==
    IF section = "zls.warn_style" THEN "zig.zls.warnStyle"
    ELSE "zig.zls.zigLibPath"

C5_Entry(section) ==
    IF section = "zls.zig_exe_path" THEN getZigPath
    ELSE IF section = "zls.enable_ast_check_diagnostics"
    THEN BoolValue(settings.astCheckProvider = "zls")
    ELSE SettingValue(C5_Section(section))

\* C5: the answer to a workspace/configuration request has one entry per
\* item, in the order of the items, each entry being the value the claim
\* names for its item.
C5_EntriesMatchItems ==
    mwParams # <<>> =>
        /\ Len(mwResult) = Len(mwParams)
        /\ \A i \in 1..Len(mwParams) : mwResult[i] = C5_Entry(mwParams[i])

\* A step of handler p that writes a configuration setting.
C6_Writes(p) ==
    \/ Has(NewEntries(p), "update.path.global")
    \/ Has(NewEntries(p), "update.path.workspace")

\* C6: the only setting the module writes is zig.zls.path, and only install
\* (its first turn or the answer to its prompt) and installVersion (the
\* settled download) write it; every other step leaves all settings as they
\* are.
C6_OnlyInstallWritesPath ==
    [][/\ zigPath' = zigPath
       /\ settings' = settings
       /\ (zlsPathW' # zlsPathW \/ zlsPathG' # zlsPathG) =>
             \E p \in Procs : C6_Writes(p)
       /\ \A p \in Procs :
             C6_Writes(p) =>
                \/ pc[p] \in {"idle", "prompt"} /\ op'[p] \in InstallOps
                \/ pc[p] = "download"
                   /\ op'[p] \in InstallOps \cup UpdateOps]_vars

\* C6 witness: the update command has reached installVersion, which wrote
\* zig.zls.path.
C6_Witness ==
    \E p \in Procs :
        /\ op[p] = "zig.zls.update"
        /\ pc[p] = "updated"
        /\ Has(log[p], "update.path.global")

\* C7: one invocation of install or checkUpdate issues at most one request
\* for the version index and at most one download request.
C7_NoRetry ==
    \A p \in Procs :
        /\ Count(log[p], "get.index") <= 1
        /\ Count(log[p], "get.binary") <= 1

\* C7 witness: an install fetched the index, its download failed without a
\* response, and it ended.
C7_Witness ==
    \E p \in Procs :
        /\ pc[p] = "done"
        /\ Has(log[p], "get.index")
        /\ Has(log[p], "get.binary")
        /\ Has(log[p], "http.noResponse")

\* The version text carried by the first entry e of a log.
VersionOf(lg, e) == lg[CHOOSE i \in 1..Len(lg) : lg[i].e = e].v

\* C8: after "Install" was answered to the update prompt, the binary
\* checkUpdate has installVersion download is the index's latest version.
C8_UpdateDownloadsLatest ==
    \A p \in Procs :
        (op[p] \in UpdateOps /\ Has(log[p], "get.binary")) =>
            VersionOf(log[p], "get.binary") = VersionOf(log[p], "index.latest")

\* C9, the version install is to request for what `zig version` printed.
C9_Wanted(lg) ==
    LET out == lg[1].v
    IN  IF out[5] # 0 THEN VersionOf(lg, "index.latest")
        ELSE [out EXCEPT ![3] = 0]

\* C9: install requests the index's latest version for a nightly Zig and
\* X.Y.0 for the tagged release X.Y.Z, in the download URL and in the
\* version its messages show.
C9_InstallVersionChoice ==
    \A p \in Procs :
        (op[p] \in InstallOps /\ Has(log[p], "get.binary")) =>
            /\ VersionOf(log[p], "get.binary") = C9_Wanted(log[p])
            /\ \A i \in 1..Len(log[p]) :
                  log[p][i].e \in {"showError.noPrebuilt",
                                   "showError.unableToInstall"} =>
                      log[p][i].v = WithoutBuild(C9_Wanted(log[p]))

\* C10: with ask = true, install requests the index, downloads or touches
\* the install directory only if the prompt was answered "Install".
C10_OnlyOnInstallAnswer ==
    \A p \in Procs :
        (/\ op[p] \in InstallOps
         /\ loc[p].ask
         /\ \/ Has(log[p], "get.index")
            \/ Has(log[p], "get.binary")
            \/ Has(log[p], "rmSync")
            \/ Has(log[p], "mkdirp")) =>
            Has(log[p], "answer.Install")

\* The step is a turn of handler p.
TurnOf(p) == pc'[p] # pc[p] \/ log'[p] # log[p]

\* What installVersion does to the install directory and the settings.
InstallEvents ==
    {"rmSync", "mkdirp", "get.binary", "writeFile", "chmod",
     "update.path.global", "update.path.workspace"}

\* C11: checkUpdate shows the update prompt only if zig.zls.path is the
\* managed binary, the installed version parses, carries build metadata and
\* is not semver-equal to the index's latest; its turns leave the install
\* directory and zig.zls.path unchanged unless "Install" was answered to
\* that prompt, and with a path outside the managed directory it runs no
\* process and requests nothing.
C11_UpdatePromptOnly ==
    [][\A p \in Procs :
         (TurnOf(p) /\ op'[p] \in UpdateOps) =>
            /\ (pc[p] = "idle" /\ Has(NewEntries(p), "checkUpdate")) =>
                  /\ ZlsPath # "managed" =>
                        /\ ~Has(NewEntries(p), "exec.zls")
                        /\ ~Has(NewEntries(p), "get.index")
                        /\ pc'[p] = "starting"
                  /\ Has(NewEntries(p), "get.index") =>
                        /\ ZlsPath = "managed"
                        /\ fs.kind = "file"
                        /\ SemverParse(fs.ver) # NullVersion
                        /\ fs.ver[5] # 0
                        /\ loc'[p].version = SemverParse(fs.ver)
            /\ Has(NewEntries(p), "prompt.update") =>
                  /\ pc[p] = "cuIndex"
                  /\ NewEntries(p)[1].e = "index.latest"
                  /\ ~SemverEq(loc[p].version,
                               SemverParse(NewEntries(p)[1].v))
            /\ Has(NewEntries(p), "get.index") => pc[p] = "idle"
            /\ (\/ fs' # fs \/ zlsPathW' # zlsPathW \/ zlsPathG' # zlsPathG
                \/ \E i \in 1..Len(NewEntries(p)) :
                      NewEntries(p)[i].e \in InstallEvents) =>
                  /\ Has(log'[p], "prompt.update")
                  /\ Has(log'[p], "answer.Install")]_vars

\* C11 witness: checkUpdate has shown the update prompt for a managed
\* nightly binary that differs from the index's latest version.
C11_Witness ==
    \E p \in Procs :
        /\ pc[p] = "cuPrompt"
        /\ Has(log[p], "prompt.update")
        /\ ZlsPath = "managed"
        /\ ~SemverEq(loc[p].version,
                     SemverParse(VersionOf(log[p], "index.latest")))

\* The commands that need zig.zls.path.
C12_ZlsCommands ==
    {"zig.zls.stop", "zig.zls.startRestart", "zig.zls.openconfig",
     "zig.zls.update"}

\* C12: a command invoked while its required setting is null (zig.path for
\* zig.zls.install, zig.zls.path for the other four) shows an error
\* notification and does nothing else: client, the running servers, the
\* settings and the install directory are unchanged and the command ends.
C12_MissingSetting ==
    [][\A p \in Procs :
         (/\ pc[p] = "idle" /\ TurnOf(p)
          /\ \/ op'[p] = "zig.zls.install" /\ zigPath = "null"
             \/ op'[p] \in C12_ZlsCommands /\ ZlsPath = "null") =>
            /\ Len(log'[p]) = 1
            /\ log'[p][1].e \in ErrorNotifications
            /\ pc'[p] = "done"
            /\ result'[p] = "ok"
            /\ client' = client
            /\ live' = live
            /\ fs' = fs
            /\ <<zigPath, zlsPathW, zlsPathG, settings>>'
                  = <<zigPath, zlsPathW, zlsPathG, settings>>]_vars

\* C12 witness: zig.zls.stop was refused for a missing zig.zls.path while a
\* client is running.
C12_Witness ==
    \E p \in Procs :
        /\ op[p] = "zig.zls.stop"
        /\ pc[p] = "done"
        /\ Has(log[p], "showError.zlsPathNotSet")
        /\ ZlsPath = "null"
        /\ client # 0
        /\ client \in live

\* What startClient's promise adds to a handler's log once client.start()
\* has settled.
C13_StartEvents == {"showWarning.failedToRun", "dispose.formatting"}

\* C13: activate starts the server only if zig.path and zig.zls.path are
\* non-null, and calls checkUpdate only if moreover zig.zls.checkForUpdate
\* is true and shouldCheckUpdate returned true; when startClient begins,
\* every request, prompt and installation of checkUpdate has settled, the
\* server command is the zig.zls.path in force at that moment (the managed
\* binary when the update recorded it), and nothing of checkUpdate follows.
C13_UpdateBeforeStart ==
    [][(TurnOf("act") /\ op'["act"] = "activate") =>
         LET lg == log'["act"] IN
         /\ pc["act"] = "idle" =>
               /\ (pc'["act"] # "done" \/ lg # <<>>) =>
                     zigPath # "null" /\ ZlsPath # "null"
               /\ Has(lg, "checkUpdate") =>
                     /\ settings.checkForUpdate
                     /\ Has(lg, "shouldCheckUpdate.true")
         /\ pc'["act"] = "starting" =>
               /\ pc["act"] # "starting"
               /\ zigPath # "null"
               /\ loc'["act"].command = ZlsPath'
               /\ Has(lg, "get.index") => Has(lg, "index.latest")
               /\ Has(lg, "prompt.update") =>
                     \E a \in PromptOutcomes : Has(lg, AnswerEvent(a))
               /\ Has(lg, "get.binary") =>
                     \/ Has(lg, "http.403")
                     \/ /\ Has(lg, "writeFile") /\ Has(lg, "chmod")
                        /\ lg[Len(lg)].e = "update.path.global"
                        /\ loc'["act"].command = "managed"
         /\ pc["act"] = "starting" =>
               /\ pc'["act"] = "done"
               /\ \A i \in 1..Len(NewEntries("act")) :
                     NewEntries("act")[i].e \in C13_StartEvents]_vars

\* C13 witness: activate is starting the server from the managed binary that
\* its checkUpdate has just installed.
C13_Witness ==
    /\ op["act"] = "activate"
    /\ pc["act"] = "starting"
    /\ Has(log["act"], "shouldCheckUpdate.true")
    /\ Has(log["act"], "update.path.global")
    /\ loc["act"].command = "managed"
    /\ fs.kind = "file"

\* C14: under every interleaving of the handlers at their await points, at
\* most one LanguageClient is started and not stopped, and it is the one the
\* module variable client refers to.
C14_SingleClient == live \subseteq {client}

\* No handler is between its call and the settling of its promise.
C15_AllFinished == \A p \in Procs : pc[p] \in {"idle", "exited", "done"}

\* C15: whenever every operation has finished and zig.zls.path is the
\* managed binary path, the binary file exists there with mode 0755.
C15_ManagedPathHasBinary ==
    (C15_AllFinished /\ ZlsPath = "managed") =>
        (fs.kind = "file" /\ fs.mode = Mode755)

\* C16: when client.start() has failed, startClient has shown the warning,
\* left client null, touched no client afterwards, and its promise resolved
\* without an exception, whatever zig.formattingProvider is.
C16_StartFailureResolves ==
    [][\A p \in Procs :
         (/\ pc[p] = "starting" /\ TurnOf(p)
          /\ Has(NewEntries(p), "showWarning.failedToRun")) =>
            /\ client' = 0
            /\ ~Has(NewEntries(p), "dispose.formatting")
            /\ pc'[p] = "done"
            /\ result'[p] = "ok"]_vars

====
